---- MODULE Spec2Model ----
(***************************************************************************)
(* A model of Go_MuteCut (main.go and extractAudio): a command-line front  *)
(* end that builds an ffmpeg argument list for trimming, muting or MP3     *)
(* extraction, resolves the ffmpeg/ffprobe binaries, runs the encoder and  *)
(* reports the result.                                                     *)
(*                                                                         *)
(* Go strings are modelled as sequences of one-character strings, so that  *)
(* prefix/suffix tests, splitting, extension handling, number parsing and  *)
(* formatting are computed character by character as the library does.     *)
(* float64 values are modelled as exact decimals in thousandths of a       *)
(* second plus +Inf; inputs whose finite value does not fit that           *)
(* representation are not enumerated (see InModelRange).                   *)
(***************************************************************************)
EXTENDS Integers, Sequences, FiniteSets, TLC

(***************************************************************************)
(* String literals of the source.                                          *)
(***************************************************************************)
Str_ss == <<"-", "s", "s">>
Str_to == <<"-", "t", "o">>
Str_i == <<"-", "i">>
Str_cv == <<"-", "c", ":", "v">>
Str_libx264 == <<"l", "i", "b", "x", "2", "6", "4">>
Str_preset == <<"-", "p", "r", "e", "s", "e", "t">>
Str_crf == <<"-", "c", "r", "f">>
Str_ca == <<"-", "c", ":", "a">>
Str_aac == <<"a", "a", "c">>
Str_ba == <<"-", "b", ":", "a">>
Str_192k == <<"1", "9", "2", "k">>
Str_af == <<"-", "a", "f">>
Str_y == <<"-", "y">>
Str_vn == <<"-", "v", "n">>
Str_acodec == <<"-", "a", "c", "o", "d", "e", "c">>
Str_libmp3lame == <<"l", "i", "b", "m", "p", "3", "l", "a", "m", "e">>
Str_qa == <<"-", "q", ":", "a">>
Str_2 == <<"2">>
Str_mp3 == <<".", "m", "p", "3">>
Str_cleaned == <<"_", "c", "l", "e", "a", "n", "e", "d">>
Str_muted == <<"_", "m", "u", "t", "e", "d">>
Str_filterHead == <<"v", "o", "l", "u", "m", "e", "=", "0", ":", "e", "n", "a", "b", "l", "e", "=", "'", "b", "e", "t", "w", "e", "e", "n", "(", "t", ",">>
Str_filterTail == <<")", "'">>
Str_http == <<"h", "t", "t", "p", ":", "/", "/">>
Str_https == <<"h", "t", "t", "p", "s", ":", "/", "/">>
Str_www == <<"w", "w", "w", ".">>
Str_bin == <<"b", "i", "n">>
Str_exe == <<".", "e", "x", "e">>
Str_ffmpeg == <<"f", "f", "m", "p", "e", "g">>
Str_ffprobe == <<"f", "f", "p", "r", "o", "b", "e">>
Str_medium == <<"m", "e", "d", "i", "u", "m">>
Str_PosInf == <<"+", "I", "n", "f">>

(***************************************************************************)
(* Bounds of the model.                                                    *)
(***************************************************************************)
\* longest timestamp string enumerated for parseTimeToSeconds
MaxLen == 5
\* most ':'-separated segments in an enumerated timestamp
MaxParts == 4
\* largest finite term (in thousandths of a second) the model represents
CapMilli == 100000000

(***************************************************************************)
(* Go library functions on strings (package strings, path/filepath).       *)
(***************************************************************************)
\* strings.HasPrefix
HasPrefix(s, p) ==
    /\ Len(p) <= Len(s)
    /\ SubSeq(s, 1, Len(p)) = p

\* strings.HasSuffix
HasSuffix(s, x) ==
    /\ Len(x) <= Len(s)
    /\ SubSeq(s, Len(s) - Len(x) + 1, Len(s)) = x

\* strings.TrimSuffix
TrimSuffix(s, x) ==
    IF HasSuffix(s, x) THEN SubSeq(s, 1, Len(s) - Len(x)) ELSE s

\* unicode.ToLower on the letters the model's strings use
LowerChar(c) ==
    CASE c = "M" -> "m"
      [] c = "P" -> "p"
      [] c = "A" -> "a"
      [] c = "O" -> "o"
      [] OTHER -> c

\* strings.ToLower
ToLower(s) == [i \in 1..Len(s) |-> LowerChar(s[i])]

\* unicode.IsSpace on the characters the model's strings use
IsSpace(c) == c \in {" ", "\t"}

\* strings.TrimSpace
RECURSIVE TrimLeft(_)
TrimLeft(s) ==
    IF s # <<>> /\ IsSpace(Head(s)) THEN TrimLeft(Tail(s)) ELSE s

RECURSIVE TrimRight(_)
TrimRight(s) ==
    IF s # <<>> /\ IsSpace(s[Len(s)])
    THEN TrimRight(SubSeq(s, 1, Len(s) - 1))
    ELSE s

TrimSpace(s) == TrimRight(TrimLeft(s))

\* strings.Index for a one-character separator; 0 when absent
IndexOf(s, c) ==
    IF \E i \in 1..Len(s) : s[i] = c
    THEN CHOOSE i \in 1..Len(s) : s[i] = c /\ \A j \in 1..(i - 1) : s[j] # c
    ELSE 0

\* strings.Split(s, ":")
RECURSIVE SplitAt(_, _, _)
SplitAt(s, sep, k) ==
    IF k = 0 THEN <<s>>
    ELSE <<SubSeq(s, 1, k - 1)>>
         \o SplitAt(SubSeq(s, k + 1, Len(s)), sep,
                    IndexOf(SubSeq(s, k + 1, Len(s)), sep))

Split(s, sep) == SplitAt(s, sep, IndexOf(s, sep))

\* filepath.Ext: the suffix from the last '.' of the last path element
RECURSIVE ExtFrom(_, _)
ExtFrom(path, i) ==
    IF i < 1 \/ path[i] = "/" THEN <<>>
    ELSE IF path[i] = "." THEN SubSeq(path, i, Len(path))
    ELSE ExtFrom(path, i - 1)

Ext(path) == ExtFrom(path, Len(path))

(***************************************************************************)
(* float64 values: a finite value in thousandths, or +Inf.                 *)
(***************************************************************************)
Fin(m) == [cls |-> "fin", m |-> m]
PosInf == [cls |-> "inf", m |-> 0]

\* float64 multiplication by a positive finite multiplier
FMul(v, mult) == IF v.cls = "inf" THEN PosInf ELSE Fin(v.m * mult)

\* float64 addition
FAdd(a, b) ==
    IF a.cls = "inf" \/ b.cls = "inf" THEN PosInf ELSE Fin(a.m + b.m)

(***************************************************************************)
(* strconv.ParseFloat(s, 64) on unsigned decimal literals:                 *)
(*   digits [ "." digits ] [ ("e"|"E") digits ]   with at least one digit. *)
(* A malformed string gives (0, ErrSyntax); a well-formed one beyond the   *)
(* float64 range gives (+Inf, ErrRange).                                   *)
(***************************************************************************)
IsDigit(c) == c \in {"0", "1", "2", "3", "4", "5", "6", "7", "8", "9"}

DigitVal(c) ==
    CASE c = "0" -> 0 [] c = "1" -> 1 [] c = "2" -> 2 [] c = "3" -> 3
      [] c = "4" -> 4 [] c = "5" -> 5 [] c = "6" -> 6 [] c = "7" -> 7
      [] c = "8" -> 8 [] c = "9" -> 9

AllDigits(s) == \A i \in 1..Len(s) : IsDigit(s[i])

RECURSIVE DigitsVal(_)
DigitsVal(s) ==
    IF s = <<>> THEN 0
    ELSE DigitsVal(SubSeq(s, 1, Len(s) - 1)) * 10 + DigitVal(s[Len(s)])

RECURSIVE Pow60(_)
Pow60(n) == IF n = 0 THEN 1 ELSE 60 * Pow60(n - 1)

RECURSIVE Pow10(_)
Pow10(n) == IF n = 0 THEN 1 ELSE 10 * Pow10(n - 1)

\* number of decimal digits of m > 0
RECURSIVE NumDigits(_)
NumDigits(m) == IF m < 10 THEN 1 ELSE 1 + NumDigits(m \div 10)

\* the syntactic parts of a decimal literal: integer digits, fraction
\* digits and exponent digits
ScanParts(intS, fracS, hasExp, expS) ==
    IF /\ AllDigits(intS)
       /\ AllDigits(fracS)
       /\ Len(intS) + Len(fracS) >= 1
       /\ hasExp => (Len(expS) >= 1 /\ AllDigits(expS))
    THEN [ok |-> TRUE, mant |-> DigitsVal(intS \o fracS),
          fdigits |-> Len(fracS), exp |-> DigitsVal(expS)]
    ELSE [ok |-> FALSE, mant |-> 0, fdigits |-> 0, exp |-> 0]

\* the mantissa split at its '.' (dot = 0: none)
ScanMantissa(mantS, dot, hasExp, expS) ==
    IF dot = 0 THEN ScanParts(mantS, <<>>, hasExp, expS)
    ELSE ScanParts(SubSeq(mantS, 1, dot - 1),
                   SubSeq(mantS, dot + 1, Len(mantS)), hasExp, expS)

\* the literal split at its exponent marker (ePos = 0: none)
ScanExponent(s, mantS, ePos) ==
    ScanMantissa(mantS, IndexOf(mantS, "."), ePos # 0,
                 IF ePos = 0 THEN <<>> ELSE SubSeq(s, ePos + 1, Len(s)))

ScanAt(s, ePos) ==
    ScanExponent(s, IF ePos = 0 THEN s ELSE SubSeq(s, 1, ePos - 1), ePos)

\* index of the first 'e' or 'E'; 0 when absent
ExpIndex(s) ==
    IF \E i \in 1..Len(s) : s[i] \in {"e", "E"}
    THEN CHOOSE i \in 1..Len(s) :
            s[i] \in {"e", "E"} /\ \A j \in 1..(i - 1) : s[j] \notin {"e", "E"}
    ELSE 0

Scan(s) == ScanAt(s, ExpIndex(s))

\* mant * 10^k in thousandths
Milli(mant, k) ==
    IF k + 3 >= 0 THEN mant * Pow10(k + 3) ELSE mant \div Pow10(-(k + 3))

\* the value of a scanned literal with decimal exponent k
FloatOf(sc, k) ==
    IF ~sc.ok THEN [val |-> Fin(0), err |-> "ErrSyntax"]
    ELSE IF sc.mant = 0 THEN [val |-> Fin(0), err |-> "nil"]
    \* every finite float64 is below 10^309
    ELSE IF NumDigits(sc.mant) + k > 309
         THEN [val |-> PosInf, err |-> "ErrRange"]
    ELSE [val |-> Fin(Milli(sc.mant, k)), err |-> "nil"]

ScannedFloat(sc) == FloatOf(sc, sc.exp - sc.fdigits)

ParseFloat(s) == ScannedFloat(Scan(s))

\* the finite values the model represents exactly: whole thousandths, at
\* most CapMilli after weighting by `weight`
ScannedInRange(sc, k, weight) ==
    \/ ~sc.ok
    \/ sc.mant = 0
    \/ NumDigits(sc.mant) + k > 309
    \/ /\ k + 3 <= 8
       /\ k + 3 >= -8
       /\ k + 3 < 0 => sc.mant % Pow10(-(k + 3)) = 0
       /\ NumDigits(sc.mant) + k + 3 <= 9
       /\ Milli(sc.mant, k) <= CapMilli \div weight

ScannedInModelRange(sc, weight) == ScannedInRange(sc, sc.exp - sc.fdigits, weight)

InModelRange(s, weight) == ScannedInModelRange(Scan(s), weight)

(***************************************************************************)
(* parseTimeToSeconds (main.go)                                            *)
(***************************************************************************)
\* the loop body of parseTimeToSeconds, for i = Len(parts) - 1 down to 0
RECURSIVE parseLoop(_, _, _, _)
parseLoop(parts, i, seconds, multiplier) ==
    IF i < 1 THEN seconds
    ELSE parseLoop(parts, i - 1,
                   FAdd(seconds, FMul(ParseFloat(parts[i]).val, multiplier)),
                   multiplier * 60)

\* main.go 216-226: the segments summed from the right
parseParts(parts) == parseLoop(parts, Len(parts), Fin(0), 1)

\* main.go 212-214 on the result of ParseFloat(ts, 64)
parseWhole(ts0, whole) ==
    IF whole.err = "nil" THEN whole.val ELSE parseParts(Split(ts0, ":"))

parseTimeToSeconds(ts0) == parseWhole(ts0, ParseFloat(ts0))

(***************************************************************************)
(* strconv.Itoa, fmt.Sprintf("%.3f")                                       *)
(***************************************************************************)
DigitChar(d) ==
    CASE d = 0 -> "0" [] d = 1 -> "1" [] d = 2 -> "2" [] d = 3 -> "3"
      [] d = 4 -> "4" [] d = 5 -> "5" [] d = 6 -> "6" [] d = 7 -> "7"
      [] d = 8 -> "8" [] d = 9 -> "9"

RECURSIVE NatToStr(_)
NatToStr(n) ==
    IF n < 10 THEN <<DigitChar(n)>>
    ELSE NatToStr(n \div 10) \o <<DigitChar(n % 10)>>

\* strconv.Itoa
Itoa(n) == IF n < 0 THEN <<"-">> \o NatToStr(-n) ELSE NatToStr(n)

\* fmt.Sprintf("%.3f", v) of a non-negative value
FormatF3(v) ==
    IF v.cls = "inf" THEN Str_PosInf
    ELSE NatToStr(v.m \div 1000) \o <<".">>
         \o <<DigitChar((v.m \div 100) % 10), DigitChar((v.m \div 10) % 10),
              DigitChar(v.m % 10)>>

(***************************************************************************)
(* path/filepath on slash-separated, already clean paths                   *)
(***************************************************************************)
RECURSIVE LastSlash(_, _)
LastSlash(path, i) ==
    IF i < 1 THEN 0 ELSE IF path[i] = "/" THEN i ELSE LastSlash(path, i - 1)

RECURSIVE TrimSlashes(_)
TrimSlashes(s) ==
    IF Len(s) > 1 /\ s[Len(s)] = "/"
    THEN TrimSlashes(SubSeq(s, 1, Len(s) - 1))
    ELSE s

\* filepath.Dir
DirAt(path, i) ==
    IF i = 0 THEN <<".">> ELSE TrimSlashes(SubSeq(path, 1, i))

Dir(path) == DirAt(path, LastSlash(path, Len(path)))

\* filepath.Join(dir, elem)
Join(dir, elem) ==
    IF dir = <<>> THEN elem
    ELSE IF dir[Len(dir)] = "/" THEN dir \o elem
    ELSE dir \o <<"/">> \o elem

(***************************************************************************)
(* Config (main.go) and the flag values behind main's pointers             *)
(***************************************************************************)
EmptyConfig ==
    [InputFile |-> <<>>, OutputFile |-> <<>>,
     MaxVideoLen |-> 0, MaxFileSize |-> 0,
     Preset |-> <<>>, CRF |-> 0,
     MuteStart |-> <<>>, MuteEnd |-> <<>>,
     StartTime |-> <<>>, EndTime |-> <<>>,
     FfmpegBin |-> <<>>, FfprobeBin |-> <<>>,
     Verbose |-> FALSE, ExtractMP3 |-> FALSE]

\* default of the -crf flag
DefaultCRF == 23

\* the flag defaults (flag.String / flag.Int / flag.Bool)
DefaultFlags ==
    [input |-> <<>>, output |-> <<>>, start |-> <<>>, end |-> <<>>,
     muteStart |-> <<>>, muteEnd |-> <<>>,
     preset |-> Str_medium, crf |-> DefaultCRF,
     verbose |-> FALSE, mp3 |-> FALSE, url |-> <<>>]

Msg(text, arg) == [text |-> text, arg |-> arg]

(***************************************************************************)
(* getInputArgs, simpleCut, extractAudio, runFFmpeg, printStats            *)
(***************************************************************************)
\* faulty variant: the input is appended before the seek flags
getInputArgs_inputFirst(c) ==
    <<Str_i, c.InputFile>>
    \o (IF c.StartTime # <<>> THEN <<Str_ss, c.StartTime>> ELSE <<>>)
    \o (IF c.EndTime # <<>> THEN <<Str_to, c.EndTime>> ELSE <<>>)

getInputArgs(c) ==
    (IF c.StartTime # <<>> THEN <<Str_ss, c.StartTime>> ELSE <<>>)
    \o (IF c.EndTime # <<>> THEN <<Str_to, c.EndTime>> ELSE <<>>)
    \o <<Str_i, c.InputFile>>

\* the filter chain of simpleCut (main.go 187-194)
\* fmt.Sprintf("volume=0:enable='between(t,%.3f,%.3f)'", startSec, endSec)
muteFilter(startSec, endSec) ==
    Str_filterHead \o FormatF3(startSec) \o <<",">> \o FormatF3(endSec)
    \o Str_filterTail

muteFilters(c) ==
    IF c.MuteStart # <<>> /\ c.MuteEnd # <<>>
    THEN <<muteFilter(parseTimeToSeconds(c.MuteStart),
                      parseTimeToSeconds(c.MuteEnd))>>
    ELSE <<>>

\* strings.Join(elems, ",")
RECURSIVE JoinComma(_)
JoinComma(elems) ==
    IF elems = <<>> THEN <<>>
    ELSE IF Len(elems) = 1 THEN elems[1]
    ELSE elems[1] \o <<",">> \o JoinComma(Tail(elems))

\* exec.Command(cfg.FfmpegBin, args...) with the streams runFFmpeg attaches
runFFmpeg(c, args) ==
    [bin |-> c.FfmpegBin, args |-> args,
     stdout |-> c.Verbose, stderr |-> TRUE]

\* simpleCut up to cmd.Run: what it prints and the command it runs
\* main.go 196-205: the argument list from the input arguments and filters
cutArgs(c, inputArgs, filters) ==
    inputArgs
    \o <<Str_cv, Str_libx264, Str_preset, c.Preset, Str_crf, Itoa(c.CRF)>>
    \o <<Str_ca, Str_aac, Str_ba, Str_192k>>
    \o (IF Len(filters) > 0 THEN <<Str_af, JoinComma(filters)>> ELSE <<>>)
    \o <<Str_y, c.OutputFile>>

simpleCut(c) ==
    [out |-> <<>>,
     cmd |-> runFFmpeg(c, cutArgs(c, getInputArgs(c), muteFilters(c)))]

\* extractAudio up to cmd.Run; cfg is its own copy of main's Config
\* faulty variant: the ".mp3" test is case-sensitive
mp3OutputFile_caseSensitive(c) ==
    IF c.OutputFile = <<>>
    THEN TrimSuffix(c.InputFile, Ext(c.InputFile)) \o Str_mp3
    ELSE IF ~HasSuffix(c.OutputFile, Str_mp3)
         THEN c.OutputFile \o Str_mp3
         ELSE c.OutputFile

\* part_001 43-53: the output file name of extractAudio
mp3OutputFile(c) ==
    IF c.OutputFile = <<>>
    THEN TrimSuffix(c.InputFile, Ext(c.InputFile)) \o Str_mp3
    ELSE IF ~HasSuffix(ToLower(c.OutputFile), Str_mp3)
         THEN c.OutputFile \o Str_mp3
         ELSE c.OutputFile

\* part_001 56-68 on extractAudio's own copy of the Config
extractRun(c) ==
    [out |-> <<Msg("Extracting MP3 to: %s", c.OutputFile)>>,
     cmd |-> runFFmpeg(c, <<Str_i, c.InputFile, Str_vn, Str_acodec,
                            Str_libmp3lame, Str_qa, Str_2, Str_y,
                            c.OutputFile>>)]

extractAudio(c) == extractRun([c EXCEPT !.OutputFile = mp3OutputFile(c)])

printStats(c) == <<Msg("Done!", <<>>), Msg("Output: %s", c.OutputFile)>>

(***************************************************************************)
(* resolveBinary.  env: what os.Executable and os.Getwd return, the files  *)
(* os.Stat finds, and the directories of PATH.                             *)
(***************************************************************************)
\* os.Stat(p) returns err == nil
StatOK(env, p) == p \in env.files

\* exec.LookPath(name): the first PATH directory holding name, else ""
RECURSIVE LookPathFrom(_, _, _)
LookPathFrom(env, dirs, name) ==
    IF dirs = <<>> THEN <<>>
    ELSE IF StatOK(env, Join(Head(dirs), name)) THEN Join(Head(dirs), name)
    ELSE LookPathFrom(env, Tail(dirs), name)

LookPath(env, name) == LookPathFrom(env, env.path, name)

\* the two candidates under dir/bin (main.go 246-252 and 257-263)
\* the two os.Stat checks on binPath (main.go 247-252 and 258-263);
\* "" when neither finds a file
statBin(env, binPath) ==
    IF StatOK(env, binPath) THEN binPath
    ELSE IF StatOK(env, binPath \o Str_exe) THEN binPath \o Str_exe
    ELSE <<>>

\* main.go 244-253
fromExecutable(env, name) ==
    IF ~env.exeErr
    THEN statBin(env, Join(Join(Dir(env.exePath), Str_bin), name))
    ELSE <<>>

\* main.go 255-264
fromWorkDir(env, name) ==
    IF ~env.cwdErr
    THEN statBin(env, Join(Join(env.cwd, Str_bin), name))
    ELSE <<>>

firstFound(fromExe, fromCwd, fromPath) ==
    IF fromExe # <<>> THEN fromExe
    ELSE IF fromCwd # <<>> THEN fromCwd
    ELSE fromPath

\* faulty variant: the working directory is searched before the directory
\* of the executable
resolveBinary_cwdFirst(env, name) ==
    firstFound(fromWorkDir(env, name), fromExecutable(env, name),
               LookPath(env, name))

resolveBinary(env, name) ==
    firstFound(fromExecutable(env, name), fromWorkDir(env, name),
               LookPath(env, name))

(***************************************************************************)
(* interactiveMode: lines is what stdin holds; a failed scanner.Scan()     *)
(* leaves the field at its zero value.                                     *)
(***************************************************************************)
interactiveMode(lines) ==
    LET Line(k) == IF Len(lines) >= k THEN TrimSpace(lines[k]) ELSE <<>>
        mode == Line(2)
        c1 == [EmptyConfig EXCEPT !.InputFile = Line(1)]
        prompts == <<Msg("Enter input video file path or YouTube URL: ", <<>>),
                     Msg("Select Mode:", <<>>),
                     Msg("1. Cut (Trim video)", <<>>),
                     Msg("2. Mute (Mute a section)", <<>>),
                     Msg("3. Extract MP3", <<>>),
                     Msg("Enter choice (1, 2, or 3): ", <<>>)>>
    IN  IF mode = <<"1">>
        THEN [cfg |-> [c1 EXCEPT !.StartTime = Line(3), !.EndTime = Line(4)],
              out |-> prompts \o
                      <<Msg("--- Cut Mode ---", <<>>),
                        Msg("Enter Start Time (e.g., 00:05 or 5): ", <<>>),
                        Msg("Enter End Time (e.g., 00:10 or 10): ", <<>>)>>]
        ELSE IF mode = <<"2">>
        THEN [cfg |-> [c1 EXCEPT !.MuteStart = Line(3), !.MuteEnd = Line(4)],
              out |-> prompts \o
                      <<Msg("--- Mute Mode ---", <<>>),
                        Msg("Enter Start Time to Mute (e.g., 00:05 or 5): ", <<>>),
                        Msg("Enter End Time to Mute (e.g., 00:10 or 10): ", <<>>)>>]
        ELSE IF mode = <<"3">>
        THEN [cfg |-> [c1 EXCEPT !.ExtractMP3 = TRUE],
              out |-> prompts \o <<Msg("--- MP3 Extraction Mode ---", <<>>)>>]
        ELSE [cfg |-> c1,
              out |-> prompts \o <<Msg("Invalid mode selected. Exiting.", <<>>)>>]

(***************************************************************************)
(* State                                                                   *)
(***************************************************************************)
VARIABLES
    pc,        \* where main is
    flags,     \* the values behind main's flag pointers
    cfg,       \* main's Config
    stdout,    \* what the program has printed
    procs,     \* the encoder processes started by cmd.Run
    encExit,   \* the exit status of the encoder process, once it has exited
    exitCode,  \* the exit status of the program, once it has terminated
    fetchRes,  \* outcome of downloadYoutubeVideo
    statRes,   \* outcome of os.Stat on the input
    mkdirs,    \* directories created by os.MkdirAll
    ts,        \* input of parseTimeToSeconds
    parsed,    \* its result
    rbEnv,     \* environment of resolveBinary
    rbName,    \* its argument
    resolved   \* its result

mainVars == <<pc, flags, cfg, stdout, procs, encExit, exitCode, fetchRes,
              statRes, mkdirs>>
parseVars == <<ts, parsed>>
resolveVars == <<rbEnv, rbName, resolved>>
vars == <<mainVars, parseVars, resolveVars>>

(***************************************************************************)
(* Inputs enumerated by the model                                          *)
(***************************************************************************)
InputFlags == {<<>>, <<"a", ".", "m", "p", "4">>, <<"d", ".", "d", "/", "a">>,
               <<"w", "w", "w", ".", "u">>}
OutputFlags == {<<>>, <<"o", ".", "m", "k", "v">>, <<"o", ".", "M", "P", "3">>}
StartFlags == {<<>>, <<"5">>}
EndFlags == {<<>>, <<"1", "0">>}
MuteFlags == {<<>>, <<"5">>, <<"0", "1", ":", "3", "0">>}
PresetFlags == {Str_medium, <<"f", "a", "s", "t">>}
CrfFlags == {DefaultCRF, 0}
UrlFlags == {<<>>, <<"h", "t", "t", "p", "s", ":", "/", "/", "u">>}

\* what stdin may hold when the program asks
StdinChoices ==
    {<<>>,
     <<<<"a", ".", "m", "p", "4">>>>,
     <<<<"a", ".", "m", "p", "4">>, <<"1">>, <<"5">>, <<"1", "0">>>>,
     <<<<" ", "a", ".", "m", "p", "4", " ">>, <<"2">>, <<"5">>,
       <<"0", "1", ":", "3", "0">>>>,
     <<<<"a", ".", "m", "p", "4">>, <<"2">>, <<"0", "1", ":", "3", "0">>>>,
     <<<<"a", ".", "m", "p", "4">>, <<" ", "3">>>>,
     <<<<"a", ".", "m", "p", "4">>, <<"4">>>>,
     <<<<"w", "w", "w", ".", "u">>, <<"3">>>>,
     <<<<>>, <<"1">>, <<"5">>, <<"1", "0">>>>}

\* the file downloadYoutubeVideo returns
DownloadedFile == <<"v", ".", "m", "p", "4">>

StatOutcomes == {"ok", "notexist", "error", "dir"}

ExitStatuses == {0, 1}

ExePath == <<"/", "a", "/", "m", "u", "t", "e", "c", "u", "t">>
DirA == <<"/", "a">>
DirW == <<"/", "w">>
DirP == <<"/", "p">>

BinFile(dir, name) == Join(Join(dir, Str_bin), name)

\* environments main's two resolveBinary calls may run in
MainEnvs ==
    {[exeErr |-> FALSE, exePath |-> ExePath, cwdErr |-> FALSE, cwd |-> DirW,
      path |-> <<DirP>>, files |-> fs] :
        fs \in {{},
                {BinFile(DirA, Str_ffmpeg), BinFile(DirA, Str_ffprobe)},
                {Join(DirP, Str_ffmpeg), BinFile(DirW, Str_ffprobe \o Str_exe)},
                {Join(DirP, Str_ffmpeg)},
                {BinFile(DirW, Str_ffprobe)}}}

IdleEnv == [exeErr |-> TRUE, exePath |-> <<>>, cwdErr |-> TRUE, cwd |-> <<>>,
            path |-> <<>>, files |-> {}]

(***************************************************************************)
(* main                                                                    *)
(***************************************************************************)
MainIdle ==
    /\ pc = "idle"
    /\ flags = DefaultFlags
    /\ cfg = EmptyConfig
    /\ stdout = <<>>
    /\ procs = <<>>
    /\ encExit = <<>>
    /\ exitCode = <<>>
    /\ fetchRes = "none"
    /\ statRes = "none"
    /\ mkdirs = {}

ParseIdle == ts = <<>> /\ parsed = <<>>

ResolveIdle == rbEnv = IdleEnv /\ rbName = <<>> /\ resolved = <<>>

\* the state after flag.Parse()
Init ==
    /\ pc = "start"
    /\ flags \in [input : InputFlags, output : OutputFlags,
                  start : StartFlags, end : EndFlags,
                  muteStart : MuteFlags, muteEnd : MuteFlags,
                  preset : PresetFlags, crf : CrfFlags,
                  verbose : BOOLEAN, mp3 : BOOLEAN, url : UrlFlags]
    /\ cfg = EmptyConfig
    /\ stdout = <<>>
    /\ procs = <<>>
    /\ encExit = <<>>
    /\ exitCode = <<>>
    /\ fetchRes = "none"
    /\ statRes = "none"
    /\ mkdirs = {}
    /\ ParseIdle
    /\ ResolveIdle

\* fmt.Print...; os.Exit(1)
Fatal(msgs) ==
    /\ stdout' = stdout \o msgs
    /\ exitCode' = <<1>>
    /\ pc' = "exited"

\* main.go 61-87: interactive fallback, then the required-input check
Begin ==
    /\ pc = "start"
    /\ \E lines \in (IF flags.input = <<>> /\ flags.url = <<>>
                     THEN StdinChoices ELSE {<<>>}) :
        LET interactive == flags.input = <<>> /\ flags.url = <<>>
            im == interactiveMode(lines)
            merged ==
                IF interactive
                THEN [flags EXCEPT
                        !.input = IF im.cfg.InputFile # <<>>
                                  THEN im.cfg.InputFile ELSE @,
                        !.output = im.cfg.OutputFile,
                        !.start = im.cfg.StartTime,
                        !.end = im.cfg.EndTime,
                        !.muteStart = im.cfg.MuteStart,
                        !.muteEnd = im.cfg.MuteEnd,
                        !.mp3 = im.cfg.ExtractMP3]
                ELSE flags
            out == IF interactive
                   THEN <<Msg("No input file provided via flags. Entering Interactive Mode...", <<>>)>>
                        \o im.out
                   ELSE <<>>
        IN  /\ flags' = merged
            /\ IF merged.input = <<>> /\ merged.url = <<>>
               THEN Fatal(out \o <<Msg("Error: Input file or YouTube URL required.", <<>>)>>)
               ELSE /\ stdout' = stdout \o out
                    /\ pc' = "fetch"
                    /\ UNCHANGED exitCode
    /\ UNCHANGED <<cfg, procs, encExit, fetchRes, statRes, mkdirs>>
    /\ UNCHANGED <<parseVars, resolveVars>>

\* downloadYoutubeVideo(url): a local file path, or an error
downloadYoutubeVideo(url) ==
    {[file |-> DownloadedFile, err |-> FALSE], [file |-> <<>>, err |-> TRUE]}

\* main.go 89-107
Fetch ==
    /\ pc = "fetch"
    /\ LET isUrl == \/ HasPrefix(flags.input, Str_http)
                    \/ HasPrefix(flags.input, Str_https)
                    \/ HasPrefix(flags.input, Str_www)
       IN  IF flags.url # <<>> \/ isUrl
           THEN \E r \in downloadYoutubeVideo(IF flags.url # <<>>
                                               THEN flags.url ELSE flags.input) :
                   LET note == IF flags.url # <<>>
                               THEN Msg("YouTube URL provided. Downloading...", <<>>)
                               ELSE Msg("YouTube URL detected. Downloading...", <<>>)
                   IN  IF r.err
                       THEN /\ Fatal(<<note, Msg("Error downloading YouTube video: %v", <<>>)>>)
                            /\ fetchRes' = "fail"
                            /\ UNCHANGED flags
                       ELSE /\ flags' = [flags EXCEPT !.input = r.file]
                            /\ fetchRes' = "ok"
                            /\ stdout' = stdout \o <<note>>
                            /\ pc' = "stat"
                            /\ UNCHANGED exitCode
           ELSE /\ pc' = "stat"
                /\ UNCHANGED <<flags, fetchRes, stdout, exitCode>>
    /\ UNCHANGED <<cfg, procs, encExit, statRes, mkdirs>>
    /\ UNCHANGED <<parseVars, resolveVars>>

\* main.go 124-134: the output path
outputFile(f) ==
    IF f.output = <<>>
    THEN LET ext == Ext(f.input)
             base == TrimSuffix(f.input, ext)
             suffix == IF f.muteStart # <<>>
                       THEN Str_cleaned \o Str_muted
                       ELSE Str_cleaned
         IN  base \o suffix \o ext
    ELSE f.output

\* main.go 136-147
makeConfig(f) ==
    [EmptyConfig EXCEPT
        !.InputFile = f.input, !.OutputFile = outputFile(f),
        !.StartTime = f.start, !.EndTime = f.end,
        !.MuteStart = f.muteStart, !.MuteEnd = f.muteEnd,
        !.Preset = f.preset, !.CRF = f.crf,
        !.Verbose = f.verbose, !.ExtractMP3 = f.mp3]

\* main.go 109-147
Validate ==
    /\ pc = "stat"
    /\ \E st \in StatOutcomes :
        /\ statRes' = st
        /\ IF st = "notexist"
           THEN Fatal(<<Msg("Error: Input file '%s' does not exist.", flags.input)>>)
                /\ UNCHANGED cfg
           ELSE IF st = "error"
           THEN Fatal(<<Msg("Error: Cannot access input file: %v", <<>>)>>)
                /\ UNCHANGED cfg
           ELSE IF st = "dir"
           THEN Fatal(<<Msg("Error: Input '%s' is a directory. Please specify a video file.", flags.input)>>)
                /\ UNCHANGED cfg
           ELSE /\ cfg' = makeConfig(flags)
                /\ pc' = "resolve"
                /\ UNCHANGED <<stdout, exitCode>>
    /\ UNCHANGED <<flags, procs, encExit, fetchRes, mkdirs>>
    /\ UNCHANGED <<parseVars, resolveVars>>

\* faulty variant: only the encoder binary is required
Resolve_ffmpegOnly ==
    /\ pc = "resolve"
    /\ \E env \in MainEnvs :
        LET c == [cfg EXCEPT !.FfmpegBin = resolveBinary(env, Str_ffmpeg),
                             !.FfprobeBin = resolveBinary(env, Str_ffprobe)]
        IN  /\ cfg' = c
            /\ IF c.FfmpegBin = <<>>
               THEN /\ Fatal(<<Msg("Error: ffmpeg or ffprobe not found in 'bin' folder or system PATH.", <<>>),
                               Msg("Please run the setup script to download them.", <<>>)>>)
                    /\ UNCHANGED mkdirs
               ELSE /\ mkdirs' = mkdirs \cup {Dir(c.OutputFile)}
                    /\ stdout' = stdout \o <<Msg("Mode: Processing (Cut/Mute)...", <<>>)>>
                    /\ pc' = "run"
                    /\ UNCHANGED exitCode
    /\ UNCHANGED <<flags, procs, encExit, fetchRes, statRes>>
    /\ UNCHANGED <<parseVars, resolveVars>>

\* main.go 149-162
Resolve ==
    /\ pc = "resolve"
    /\ \E env \in MainEnvs :
        LET c == [cfg EXCEPT !.FfmpegBin = resolveBinary(env, Str_ffmpeg),
                             !.FfprobeBin = resolveBinary(env, Str_ffprobe)]
        IN  /\ cfg' = c
            /\ IF c.FfmpegBin = <<>> \/ c.FfprobeBin = <<>>
               THEN /\ Fatal(<<Msg("Error: ffmpeg or ffprobe not found in 'bin' folder or system PATH.", <<>>),
                               Msg("Please run the setup script to download them.", <<>>)>>)
                    /\ UNCHANGED mkdirs
               ELSE /\ mkdirs' = mkdirs \cup {Dir(c.OutputFile)}
                    /\ stdout' = stdout \o <<Msg("Mode: Processing (Cut/Mute)...", <<>>)>>
                    /\ pc' = "run"
                    /\ UNCHANGED exitCode
    /\ UNCHANGED <<flags, procs, encExit, fetchRes, statRes>>
    /\ UNCHANGED <<parseVars, resolveVars>>

\* main.go 163-167 and runFFmpeg up to the start of cmd.Run()
RunMode ==
    /\ pc = "run"
    /\ LET built == IF cfg.ExtractMP3 THEN extractAudio(cfg) ELSE simpleCut(cfg)
       IN  \E started \in BOOLEAN :
             IF started
             THEN /\ procs' = Append(procs, built.cmd)
                  /\ stdout' = stdout \o built.out
                  /\ pc' = "running"
                  /\ UNCHANGED exitCode
             ELSE /\ Fatal(built.out \o <<Msg(" FFmpeg Error: %v", <<>>)>>)
                  /\ UNCHANGED procs
    /\ UNCHANGED <<flags, cfg, encExit, fetchRes, statRes, mkdirs>>
    /\ UNCHANGED <<parseVars, resolveVars>>

\* faulty variant: a failed encoder is reported but main carries on
EncoderExit_noExit ==
    /\ pc = "running"
    /\ \E status \in ExitStatuses :
        /\ encExit' = <<status>>
        /\ stdout' = stdout
                      \o (IF status # 0 THEN <<Msg(" FFmpeg Error: %v", <<>>)>> ELSE <<>>)
                      \o printStats(cfg)
        /\ exitCode' = <<0>>
        /\ pc' = "done"
    /\ UNCHANGED <<flags, cfg, procs, fetchRes, statRes, mkdirs>>
    /\ UNCHANGED <<parseVars, resolveVars>>

\* cmd.Run() returns (main.go 237-240), then main.go 168
EncoderExit ==
    /\ pc = "running"
    /\ \E status \in ExitStatuses :
        /\ encExit' = <<status>>
        /\ IF status # 0
           THEN Fatal(<<Msg(" FFmpeg Error: %v", <<>>)>>)
           ELSE /\ stdout' = stdout \o printStats(cfg)
                /\ exitCode' = <<0>>
                /\ pc' = "done"
    /\ UNCHANGED <<flags, cfg, procs, fetchRes, statRes, mkdirs>>
    /\ UNCHANGED <<parseVars, resolveVars>>

Next == Begin \/ Fetch \/ Validate \/ Resolve \/ RunMode \/ EncoderExit

Spec == Init /\ [][Next]_vars

(***************************************************************************)
(* parseTimeToSeconds as a function of its input                           *)
(***************************************************************************)
TimeChars == {"0", "1", "9", ":", ".", "e"}

\* the strings of at most MaxLen characters, with the spec's three examples
TimeStrings ==
    UNION {[1..n -> TimeChars] : n \in 0..MaxLen}
    \cup {<<"9", "0">>, <<"0", "1", ":", "3", "0">>,
          <<"0", "1", ":", "0", "0", ":", "0", "0">>}

\* every segment has a value the model represents
Representable(s) ==
    LET parts == Split(s, ":") IN
    /\ Len(parts) <= MaxParts
    /\ \A i \in 1..Len(parts) :
          InModelRange(parts[i], Pow60(Len(parts) - i))

InitParse ==
    /\ MainIdle
    /\ ResolveIdle
    /\ ts \in {s \in TimeStrings : Representable(s)}
    /\ parsed = <<>>

ParseTime ==
    /\ parsed = <<>>
    /\ parsed' = <<parseTimeToSeconds(ts)>>
    /\ UNCHANGED <<ts, mainVars, resolveVars>>

SpecParse == InitParse /\ [][ParseTime]_vars

(***************************************************************************)
(* resolveBinary as a function of its environment                          *)
(***************************************************************************)
ToolNames == {Str_ffmpeg, Str_ffprobe}

\* the files that may exist when name is looked up
FilePool(name) ==
    {BinFile(DirA, name), BinFile(DirA, name \o Str_exe),
     BinFile(DirW, name), BinFile(DirW, name \o Str_exe),
     Join(DirP, name), Join(DirP, name \o Str_exe)}

ResolveEnvs(name) ==
    [exeErr : BOOLEAN, exePath : {ExePath, Join(DirW, <<"m">>)},
     cwdErr : BOOLEAN, cwd : {DirW, DirA},
     path : {<<>>, <<DirP>>, <<Join(DirW, Str_bin), DirP>>},
     files : SUBSET FilePool(name)]

InitResolve ==
    /\ MainIdle
    /\ ParseIdle
    /\ rbName \in ToolNames
    /\ rbEnv \in ResolveEnvs(rbName)
    /\ resolved = <<"?">>

ResolveOnce ==
    /\ resolved = <<"?">>
    /\ resolved' = resolveBinary(rbEnv, rbName)
    /\ UNCHANGED <<rbEnv, rbName, mainVars, parseVars>>

SpecResolve == InitResolve /\ [][ResolveOnce]_vars

(***************************************************************************)
(* Properties                                                              *)
(***************************************************************************)
HasMsg(text) == \E i \in 1..Len(stdout) : stdout[i].text = text

LastArg(args) == args[Len(args)]

\* s contains sub as a substring
Contains(s, sub) ==
    \E i \in 0..(Len(s) - Len(sub)) : SubSeq(s, i + 1, i + Len(sub)) = sub

\* a < b on the model's float64 values
FLess(a, b) == a.cls = "fin" /\ (b.cls = "inf" \/ a.m < b.m)

\* a mute window is set: both of its boundaries are given
MuteWindowSet(c) == c.MuteStart # <<>> /\ c.MuteEnd # <<>>

\* main has built its Config (main.go 136-147)
ConfigBuilt == statRes = "ok"

\* the value the timestamp contract gives a segment: its number when it
\* parses, 0 when it does not
SegmentValue(seg) ==
    IF ParseFloat(seg).err = "nil" THEN ParseFloat(seg).val ELSE Fin(0)

\* sum of SegmentValue(parts[i]) * 60^(distance of i from the right end)
RECURSIVE WeightedSum(_, _)
WeightedSum(parts, i) ==
    IF i > Len(parts) THEN Fin(0)
    ELSE FAdd(FMul(SegmentValue(parts[i]), Pow60(Len(parts) - i)),
              WeightedSum(parts, i + 1))

ContractSeconds(s) ==
    IF ParseFloat(s).err = "nil" THEN ParseFloat(s).val
    ELSE WeightedSum(Split(s, ":"), 1)

\* C1: parseTimeToSeconds returns, for every input, the number the whole
\* string parses to, or else the sum over its ':'-separated segments of
\* value * 60^i counted from the right, a segment that does not parse
\* counting as 0; "90" and "01:30" give 90 and "01:00:00" gives 3600.
C1_ParseContract ==
    parsed # <<>> =>
        /\ parsed[1] = ContractSeconds(ts)
        /\ ts = <<"9", "0">> => parsed[1] = Fin(90000)
        /\ ts = <<"0", "1", ":", "3", "0">> => parsed[1] = Fin(90000)
        /\ ts = <<"0", "1", ":", "0", "0", ":", "0", "0">>
              => parsed[1] = Fin(3600000)

\* the default output path of the contract: extension removed, "_cleaned",
\* "_muted" exactly when a mute window is set, the extension again
ContractOutput(c) ==
    TrimSuffix(c.InputFile, Ext(c.InputFile)) \o Str_cleaned
    \o (IF MuteWindowSet(c) THEN Str_muted ELSE <<>>) \o Ext(c.InputFile)

\* C2: with no output path supplied the output path is the input path with
\* "_cleaned" (and "_muted" exactly when a mute window is set) inserted
\* before the extension; a supplied output path is used unchanged by the
\* trim/mute mode.
C2_DefaultOutputPath ==
    ConfigBuilt =>
        /\ flags.output = <<>> => cfg.OutputFile = ContractOutput(cfg)
        /\ (flags.output # <<>> /\ ~cfg.ExtractMP3) =>
              \A k \in 1..Len(procs) : LastArg(procs[k].args) = flags.output

Str_between == <<"b", "e", "t", "w", "e", "e", "n", "(", "t", ",">>

\* C3: whenever simpleCut runs with a mute window present, the encoder's
\* arguments hold "-af" followed by a filter containing between(t,S,E) with
\* S and E the parsed mute-start and mute-end, and S < E.
C3_MuteFilterWindow ==
    \A k \in 1..Len(procs) :
        (~cfg.ExtractMP3 /\ MuteWindowSet(cfg)) =>
            LET args == procs[k].args
                S == parseTimeToSeconds(cfg.MuteStart)
                E == parseTimeToSeconds(cfg.MuteEnd)
            IN  /\ \E j \in 1..(Len(args) - 1) :
                      /\ args[j] = Str_af
                      /\ Contains(args[j + 1],
                                  Str_between \o FormatF3(S) \o <<",">>
                                  \o FormatF3(E) \o <<")">>)
                /\ FLess(S, E)

\* the search order of the resolver's contract: each candidate with
\* whether it exists; the executable's or the working directory's pair is
\* absent when that directory cannot be determined
BinCandidates(dir, name) ==
    <<[path |-> dir \o <<"/">> \o Str_bin \o <<"/">> \o name,
       exists |-> (dir \o <<"/">> \o Str_bin \o <<"/">> \o name) \in rbEnv.files],
      [path |-> dir \o <<"/">> \o Str_bin \o <<"/">> \o name \o Str_exe,
       exists |-> (dir \o <<"/">> \o Str_bin \o <<"/">> \o name \o Str_exe)
                  \in rbEnv.files]>>

SearchOrder ==
    (IF rbEnv.exeErr THEN <<>> ELSE BinCandidates(Dir(rbEnv.exePath), rbName))
    \o (IF rbEnv.cwdErr THEN <<>> ELSE BinCandidates(rbEnv.cwd, rbName))
    \o <<[path |-> LookPath(rbEnv, rbName),
          exists |-> \E i \in 1..Len(rbEnv.path) :
                        (rbEnv.path[i] \o <<"/">> \o rbName) \in rbEnv.files]>>

\* C4: resolveBinary returns the first existing candidate of the order
\* exe-dir/bin/name, exe-dir/bin/name.exe, cwd/bin/name, cwd/bin/name.exe,
\* search-path lookup; never a later one while an earlier one exists; and
\* the empty string exactly when no candidate exists.
C4_FirstExistingCandidate ==
    resolved # <<"?">> =>
        /\ \A i \in 1..Len(SearchOrder) :
              (/\ SearchOrder[i].exists
               /\ \A j \in 1..(i - 1) : ~SearchOrder[j].exists)
              => resolved = SearchOrder[i].path
        /\ resolved = <<>> <=> \A i \in 1..Len(SearchOrder) : ~SearchOrder[i].exists

\* the working directory's name.exe is returned although the search path
\* also holds the tool
C4_Witness ==
    /\ ~rbEnv.exeErr
    /\ ~rbEnv.cwdErr
    /\ Dir(rbEnv.exePath) # rbEnv.cwd
    /\ resolved = BinFile(rbEnv.cwd, rbName \o Str_exe)
    /\ LookPath(rbEnv, rbName) # <<>>

\* the situations that are fatal before the encoder runs
InputMissing == pc # "start" /\ flags.input = <<>> /\ flags.url = <<>>
InputBad == statRes \in {"notexist", "dir"}
BinaryMissing ==
    /\ ConfigBuilt
    /\ pc # "resolve"
    /\ (cfg.FfmpegBin = <<>> \/ cfg.FfprobeBin = <<>>)
FetchFailed == fetchRes = "fail"

LastMsg == stdout[Len(stdout)].text

\* the program has printed, stopped with status 1, never started the
\* encoder, and has nothing left to do
FailedEarly ==
    /\ pc = "exited"
    /\ exitCode = <<1>>
    /\ procs = <<>>
    /\ encExit = <<>>
    /\ stdout # <<>>
    /\ ~ENABLED Next

C6_EncoderRunOnce ==
    /\ Len(procs) <= 1
    /\ (procs # <<>> /\ encExit = <<>>) =>
          /\ pc = "running"
          /\ exitCode = <<>>
          /\ ~HasMsg("Done!")
          /\ ~ENABLED (Begin \/ Fetch \/ Validate \/ Resolve \/ RunMode)
    /\ (encExit # <<>> /\ encExit # <<0>>) =>
          /\ pc = "exited"
          /\ exitCode = <<1>>
          /\ ~HasMsg("Done!")
          /\ ~HasMsg("Output: %s")
    /\ (HasMsg("Done!") \/ HasMsg("Output: %s")) =>
          /\ Len(procs) = 1
          /\ encExit = <<0>>

\* the encoder has exited with a non-zero status
C6_Witness ==
    /\ Len(procs) = 1
    /\ encExit = <<1>>
    /\ pc = "exited"

\* s ends in ".mp3", in any letter case
EndsWithMp3(s) ==
    /\ Len(s) >= 4
    /\ s[Len(s) - 3] = "."
    /\ s[Len(s) - 2] \in {"m", "M"}
    /\ s[Len(s) - 1] \in {"p", "P"}
    /\ s[Len(s)] = "3"

\* C7: in extract-audio mode the encoder's arguments are exactly
\* -i <input> -vn -acodec libmp3lame -q:a 2 -y <output>, and <output> ends
\* in ".mp3" whatever the case: an output path that already does is kept,
\* any other gets ".mp3" appended.
C7_ExtractArgs ==
    \A k \in 1..Len(procs) :
        cfg.ExtractMP3 =>
            LET args == procs[k].args IN
            /\ Len(args) = 9
            /\ SubSeq(args, 1, 8) =
                  <<Str_i, cfg.InputFile, Str_vn, Str_acodec, Str_libmp3lame,
                    Str_qa, Str_2, Str_y>>
            /\ EndsWithMp3(args[9])
            /\ args[9] = IF EndsWithMp3(cfg.OutputFile)
                         THEN cfg.OutputFile
                         ELSE cfg.OutputFile \o Str_mp3

\* extraction to an output path given as "o.MP3"
C7_Witness ==
    /\ procs # <<>>
    /\ cfg.ExtractMP3
    /\ cfg.OutputFile = <<"o", ".", "M", "P", "3">>

\* the decimal text of the enumerated -crf values
CrfText == IF flags.crf = 0 THEN <<"0">> ELSE <<"2", "3">>

\* C8: in trim/mute mode the arguments are, in order: "-ss <start>" iff a
\* start boundary is set, "-to <end>" iff an end boundary is set,
\* "-i <input>", the video codec, preset and CRF flags and the audio codec
\* and bitrate flags, "-af <filter>" iff both mute boundaries are set, and
\* "-y <output>" last; preset and CRF are passed through unmodified.
C8_TrimArgsOrder ==
    \A k \in 1..Len(procs) :
        ~cfg.ExtractMP3 =>
            LET a == procs[k].args
                hasSS == flags.start # <<>>
                hasTo == flags.end # <<>>
                hasAf == flags.muteStart # <<>> /\ flags.muteEnd # <<>>
                p == (IF hasSS THEN 2 ELSE 0) + (IF hasTo THEN 2 ELSE 0)
            IN  /\ hasSS => (a[1] = Str_ss /\ a[2] = flags.start)
                /\ ~hasSS => \A j \in 1..Len(a) : a[j] # Str_ss
                /\ hasTo => (a[p - 1] = Str_to /\ a[p] = flags.end)
                /\ ~hasTo => \A j \in 1..Len(a) : a[j] # Str_to
                /\ a[p + 1] = Str_i
                /\ a[p + 2] = flags.input
                /\ SubSeq(a, p + 3, p + 12) =
                      <<Str_cv, Str_libx264, Str_preset, flags.preset,
                        Str_crf, CrfText, Str_ca, Str_aac, Str_ba, Str_192k>>
                /\ hasAf => (a[p + 13] = Str_af /\ Len(a) = p + 16)
                /\ ~hasAf => (Len(a) = p + 14 /\ \A j \in 1..Len(a) : a[j] # Str_af)
                /\ a[Len(a) - 1] = Str_y
                /\ a[Len(a)] = cfg.OutputFile

\* a trim with both boundaries and a mute window
C8_Witness ==
    /\ procs # <<>>
    /\ ~cfg.ExtractMP3
    /\ flags.start # <<>>
    /\ flags.end # <<>>
    /\ MuteWindowSet(cfg)

\* C9: in extract-audio mode with no explicit output path the output file
\* is the input path with its extension replaced by ".mp3".
C9_Mp3DefaultOutput ==
    \A k \in 1..Len(procs) :
        (cfg.ExtractMP3 /\ flags.output = <<>>) =>
            LastArg(procs[k].args) =
                TrimSuffix(cfg.InputFile, Ext(cfg.InputFile)) \o Str_mp3

\* C10: after "Invalid mode selected. Exiting." in interactive mode the
\* program exits without launching the encoder.
C10_InvalidModeExits ==
    HasMsg("Invalid mode selected. Exiting.") => procs = <<>>

\* the path printed by printStats ("Output: %s")
ReportedOutputs ==
    {stdout[i].arg : i \in {j \in 1..Len(stdout) : stdout[j].text = "Output: %s"}}

\* C11: in every successful run, in trim/mute and in extract-audio mode,
\* the output path reported after completion ("Output: ...") is the path
\* that was passed to the encoder as its last argument.
C11_ReportedOutputIsEncoded ==
    pc = "done" =>
        /\ Len(procs) = 1
        /\ ReportedOutputs = {LastArg(procs[1].args)}

\* C12: in trim/mute mode with a defaulted output path, the output name
\* carries "_muted" if and only if the encoder's arguments contain the
\* "-af" mute filter; a run with only one mute boundary never produces a
\* "_muted" file whose audio was not filtered.
C12_MutedNameIffFiltered ==
    \A k \in 1..Len(procs) :
        (~cfg.ExtractMP3 /\ flags.output = <<>>) =>
            LET args == procs[k].args IN
            Contains(LastArg(args), Str_muted)
                <=> \E j \in 1..Len(args) : args[j] = Str_af

====
